---------------------------- MODULE Spec2Model ----------------------------
(***************************************************************************)
(* Model of the perishable-goods route planner of                          *)
(* src/Food_YOLO/shortpath.py: the feasibility checker Route.is_feasible,  *)
(* the three route builders of LogisticsOptimizer (optimize_route,         *)
(* _optimize_by_distance, _optimize_by_time_window) and the ensemble       *)
(* selector find_k_shortest_routes.                                        *)
(*                                                                         *)
(* Arithmetic.  The program computes with floats; the model computes the   *)
(* same expressions exactly, on integers:                                  *)
(*   - a Location is a position in km along one meridian, where the        *)
(*     haversine distance is the absolute difference of the positions;     *)
(*   - every time (clock, arrival time, travel time, service duration,     *)
(*     window bound, time to expiry when compared with a clock) is carried *)
(*     multiplied by the vehicle speed, so that (distance / speed) * 60    *)
(*     is the integer distance * 60; Minutes(t) converts t minutes;        *)
(*   - a score is carried as a fraction <<num, den>> with den > 0 and      *)
(*     compared by cross-multiplication.                                   *)
(***************************************************************************)
EXTENDS Integers, Sequences, FiniteSets, TLC

----------------------------------------------------------------------------
(* Bounds of the model *)

\* longest goods list handed to the planner
MaxGoods == 2

\* largest requested number of routes k
MaxK == 3

\* number of times the caller runs find_k_shortest_routes on the same inputs
MaxRuns == 2

\* longest hand-constructed route handed to Route.is_feasible
MaxStops == 3

\* longest goods list a hand-constructed route draws its goods from
MaxHandGoods == 3

\* largest time to expiry, minutes, of the goods whose urgency score alone is
\* computed
MaxExpiry == 6

----------------------------------------------------------------------------
(* Program constants *)

\* RouteStop.estimated_duration default, minutes
EstimatedDuration == 15

\* added to the score of a delivery candidate
DeliveryBonus == 50

\* hysteresis band of the nearest-action builder, km
DeliveryBand == 1

\* best_action is None
NoBest == [action |-> "none"]

----------------------------------------------------------------------------
(* State *)

VARIABLES
    vehicle,      \* LogisticsOptimizer.vehicle
    goods_list,   \* the caller's goods list
    k,            \* the requested number of routes
    pc,           \* where the caller is
    plan,         \* the locals of the builder run in progress
    route1,       \* find_k_shortest_routes: optimize_route's route
    route2,       \* find_k_shortest_routes: _optimize_by_distance's route
    route3,       \* find_k_shortest_routes: _optimize_by_time_window's route
    routes,       \* find_k_shortest_routes: the collected routes
    result,       \* what find_k_shortest_routes returned
    checked,      \* the last call of Route.is_feasible and its verdict
    run,          \* the number of the caller's run
    prev,         \* what the previous run produced
    hand          \* the caller's hand-constructed route

vars == <<vehicle, goods_list, k, pc, plan, route1, route2, route3, routes,
          result, checked, run, prev, hand>>

----------------------------------------------------------------------------
(* Input domains *)

\* positions in km; A = 0, B = 20 km from A, and a place 1 km from A
Locations == {0, 1, 20}

Vehicles ==
    [capacity : {50, 100}, current_location : {0}, speed : {40}]

\* goods as the caller creates them, before the list gives them an id
Catalog ==
    [quantity : {30, 80},
     pickup_location : {0, 20},
     delivery_location : {1, 20},
     time_to_expiry : {60},
     priority : {1},
     pickup_time_window : {<<0, 120>>}]
    \cup
    [quantity : {30},
     pickup_location : {0, 20},
     delivery_location : {20},
     time_to_expiry : {10},
     priority : {1},
     pickup_time_window : {<<0, 120>>}]
    \cup
    [quantity : {30},
     pickup_location : {20},
     delivery_location : {0},
     time_to_expiry : {60},
     priority : {3},
     pickup_time_window : {<<0, 120>>, <<0, 20>>}]

\* the goods item of catalog entry c at position i of the list: its id is i
WithId(c, i) ==
    [id |-> i,
     quantity |-> c.quantity,
     pickup_location |-> c.pickup_location,
     delivery_location |-> c.delivery_location,
     time_to_expiry |-> c.time_to_expiry,
     priority |-> c.priority,
     pickup_time_window |-> c.pickup_time_window]

GoodsLists ==
    UNION {{[i \in 1..n |-> WithId(cs[i], i)] : cs \in [1..n -> Catalog]}
           : n \in 0..MaxGoods}

----------------------------------------------------------------------------
(* Geo primitive and entities *)

Max(a, b) == IF a >= b THEN a ELSE b

Abs(x) == IF x >= 0 THEN x ELSE -x

\* Location.distance_to, km
DistanceTo(a, b) == Abs(a - b)

\* t minutes in the unit of the clock (minutes * speed)
Minutes(v, t) == t * v.speed

\* TravelTime without the conversion of hours to minutes
TravelTimeInHours(v, from_loc, to_loc) == DistanceTo(from_loc, to_loc)

\* Vehicle.travel_time: (distance / speed) * 60 minutes
TravelTime(v, from_loc, to_loc) == DistanceTo(from_loc, to_loc) * 60

\* UrgencyScore without the floor max(time_to_expiry, 1)
UrgencyScoreWithoutFloor(g) ==
    LET m == g.time_to_expiry
    IN  <<1000 + ((6 - g.priority) * 10) * m, m>>

\* PerishableGoods.urgency_score as the fraction <<num, den>>
UrgencyScore(g) ==
    LET m == Max(g.time_to_expiry, 1)
    IN  <<1000 + ((6 - g.priority) * 10) * m, m>>

\* fraction a > fraction b, denominators positive
FracGt(a, b) == a[1] * b[2] > b[1] * a[2]

RECURSIVE SumQuantity(_)
SumQuantity(gs) ==
    IF gs = <<>> THEN 0 ELSE gs[1].quantity + SumQuantity(Tail(gs))

\* the stable sort of s: before[i][j] says s[i] sorts strictly before s[j]
StableSort(s, before) ==
    LET n == Len(s)
        rank(i) == 1 + Cardinality({j \in 1..n :
                        \/ before[j][i]
                        \/ (~before[i][j] /\ j < i)})
    IN  [r \in 1..n |-> s[CHOOSE i \in 1..n : rank(i) = r]]

RouteStop(loc, act, g, t) ==
    [location |-> loc, action |-> act, goods |-> g, arrival_time |-> t,
     estimated_duration |-> EstimatedDuration]

\* Route(vehicle=v)
NewRoute(v) ==
    [vehicle |-> v, stops |-> <<>>, total_distance |-> 0, total_time |-> 0,
     goods_delivered |-> <<>>]

\* Route.total_goods_saved
TotalGoodsSaved(r) == SumQuantity(r.goods_delivered)

----------------------------------------------------------------------------
(* Route.is_feasible *)

Feasible == [feasible |-> TRUE, reason |-> "Route is feasible", name |-> 0]

CapacityExceeded(stop) ==
    [feasible |-> FALSE, reason |-> "Capacity exceeded at",
     name |-> stop.location]

Expired(stop) ==
    [feasible |-> FALSE, reason |-> "expired before delivery",
     name |-> stop.goods.id]

\* the test of line 101 on the load after a pickup
OverCapacity(load, v) == load > v.capacity

\* ArrivesAfterExpiry with >= for >
ArrivesAtOrAfterExpiry(stop, v) ==
    stop.arrival_time >= Minutes(v, stop.goods.time_to_expiry)

\* the test of line 107 on a delivery stop
ArrivesAfterExpiry(stop, v) ==
    stop.arrival_time > Minutes(v, stop.goods.time_to_expiry)

\* the loop of lines 98-108 from stop i on, with the load carried so far
RECURSIVE Replay(_, _, _)

\* Replay with = for += at line 100: the load is that of the last pickup
ReplayLastPickupOnly(r, i, current_load) ==
    IF i > Len(r.stops) THEN Feasible
    ELSE LET stop == r.stops[i] IN
         IF stop.action = "pickup"
         THEN IF OverCapacity(stop.goods.quantity, r.vehicle)
              THEN CapacityExceeded(stop)
              ELSE Replay(r, i + 1, stop.goods.quantity)
         ELSE IF ArrivesAfterExpiry(stop, r.vehicle)
              THEN Expired(stop)
              ELSE Replay(r, i + 1, current_load - stop.goods.quantity)

\* Replay with a test of the load after a delivery: a delivery of more than
\* is on board is refused
ReplayRefusesNegativeLoad(r, i, current_load) ==
    IF i > Len(r.stops) THEN Feasible
    ELSE LET stop == r.stops[i] IN
         IF stop.action = "pickup"
         THEN IF OverCapacity(current_load + stop.goods.quantity, r.vehicle)
              THEN CapacityExceeded(stop)
              ELSE Replay(r, i + 1, current_load + stop.goods.quantity)
         ELSE IF ArrivesAfterExpiry(stop, r.vehicle)
                 \/ current_load - stop.goods.quantity < 0
              THEN Expired(stop)
              ELSE Replay(r, i + 1, current_load - stop.goods.quantity)

Replay(r, i, current_load) ==
    IF i > Len(r.stops) THEN Feasible
    ELSE LET stop == r.stops[i] IN
         IF stop.action = "pickup"
         THEN IF OverCapacity(current_load + stop.goods.quantity, r.vehicle)
              THEN CapacityExceeded(stop)
              ELSE Replay(r, i + 1, current_load + stop.goods.quantity)
         ELSE IF ArrivesAfterExpiry(stop, r.vehicle)
              THEN Expired(stop)
              ELSE Replay(r, i + 1, current_load - stop.goods.quantity)

IsFeasible(r) == Replay(r, 1, 0)

----------------------------------------------------------------------------
(* The planning state of one builder run: the locals of lines 128-136 and  *)
(* 265-269                                                                 *)

\* PlanningState without line 132: the clock of the run before is kept
PlanningStateKeepsClock(v, gs) ==
    [goods |-> gs,
     current_location |-> v.current_location,
     current_time |-> plan.current_time,
     picked_up |-> {},
     delivered |-> {},
     route |-> NewRoute(v)]

PlanningState(v, gs) ==
    [goods |-> gs,
     current_location |-> v.current_location,
     current_time |-> 0,
     picked_up |-> {},
     delivered |-> {},
     route |-> NewRoute(v)]

\* LoopCondition on picked_up for delivered
LoopConditionOnPickedUp(p) == Cardinality(p.picked_up) < Len(p.goods)

\* the while condition of lines 138 and 271
LoopCondition(p) == Cardinality(p.delivered) < Len(p.goods)

\* lines 154 and 284: the pickup of g can start by the close of its window
PickupEligible(v, g, p) ==
    p.current_time + TravelTime(v, p.current_location, g.pickup_location)
        <= Minutes(v, g.pickup_time_window[2])

\* DeliveryEligible against the close of the pickup window for the expiry
DeliveryEligibleByWindow(v, g, p) ==
    p.current_time + TravelTime(v, p.current_location, g.delivery_location)
        <= Minutes(v, g.pickup_time_window[2])

\* DeliveryEligible on the travel time alone, without the clock
DeliveryEligibleFromNow(v, g, p) ==
    TravelTime(v, p.current_location, g.delivery_location)
        <= Minutes(v, g.time_to_expiry)

\* lines 169 and 294: the delivery of g arrives by its expiry
DeliveryEligible(v, g, p) ==
    p.current_time + TravelTime(v, p.current_location, g.delivery_location)
        <= Minutes(v, g.time_to_expiry)

\* Commit without lines 197, 215, 311 and 321: the clock is not advanced by
\* the service at the stop
CommitWithoutService(v, p, best) ==
    LET g == best.goods
        loc == IF best.action = "pickup" THEN g.pickup_location
               ELSE g.delivery_location
        arrival == p.current_time + TravelTime(v, p.current_location, loc)
        stop == RouteStop(loc, best.action, g, arrival)
    IN  [p EXCEPT
           !.current_time = arrival,
           !.current_location = loc,
           !.picked_up = IF best.action = "pickup" THEN @ \cup {g.id} ELSE @,
           !.delivered = IF best.action = "delivery" THEN @ \cup {g.id} ELSE @,
           !.route.stops = Append(@, stop),
           !.route.goods_delivered =
               IF best.action = "delivery" THEN Append(@, g) ELSE @]

\* Commit without lines 194 and 309: the pickup is not recorded
CommitForgetsPickup(v, p, best) ==
    LET g == best.goods
        loc == IF best.action = "pickup" THEN g.pickup_location
               ELSE g.delivery_location
        arrival == p.current_time + TravelTime(v, p.current_location, loc)
        stop == RouteStop(loc, best.action, g, arrival)
    IN  [p EXCEPT
           !.current_time = arrival + Minutes(v, stop.estimated_duration),
           !.current_location = loc,
           !.delivered = IF best.action = "delivery" THEN @ \cup {g.id} ELSE @,
           !.route.stops = Append(@, stop),
           !.route.goods_delivered =
               IF best.action = "delivery" THEN Append(@, g) ELSE @]

\* the stop a committed candidate adds, and what it does to the locals
\* (lines 184-197, 201-215, 304-311, 313-321; total_distance apart)
Commit(v, p, best) ==
    LET g == best.goods
        loc == IF best.action = "pickup" THEN g.pickup_location
               ELSE g.delivery_location
        arrival == p.current_time + TravelTime(v, p.current_location, loc)
        stop == RouteStop(loc, best.action, g, arrival)
    IN  [p EXCEPT
           !.current_time = arrival + Minutes(v, stop.estimated_duration),
           !.current_location = loc,
           !.picked_up = IF best.action = "pickup" THEN @ \cup {g.id} ELSE @,
           !.delivered = IF best.action = "delivery" THEN @ \cup {g.id} ELSE @,
           !.route.stops = Append(@, stop),
           !.route.goods_delivered =
               IF best.action = "delivery" THEN Append(@, g) ELSE @]

----------------------------------------------------------------------------
(* optimize_route: the greedy builder *)

\* line 128: goods by urgency score, highest first, stable
SortByUrgency(gs) ==
    StableSort(gs, [i \in 1..Len(gs) |-> [j \in 1..Len(gs) |->
        FracGt(UrgencyScore(gs[i]), UrgencyScore(gs[j]))]])

\* ArgumentAfterSorted for list.sort in place of sorted: the caller's list
\* is left in urgency order
ArgumentSortedInPlace(gs) == SortByUrgency(gs)

\* lines 128 and 328: sorted() builds a new list, and the list it is given is
\* afterwards what it was
ArgumentAfterSorted(gs) == gs

\* PickupScore with the travel time added for subtracted
PickupScoreAddsTravel(v, g, travel_time) ==
    LET u == UrgencyScore(g)
    IN  <<u[1] * 10 * v.speed + 5 * travel_time * u[2], u[2]>>

\* line 156, as the fraction score * 10 * speed
PickupScore(v, g, travel_time) ==
    LET u == UrgencyScore(g)
    IN  <<u[1] * 10 * v.speed - 5 * travel_time * u[2], u[2]>>

\* line 171, as the fraction score * 10 * speed
DeliveryScore(v, g, travel_time) ==
    LET u == UrgencyScore(g)
    IN  <<(u[1] + DeliveryBonus * u[2]) * 10 * v.speed
              - 3 * travel_time * u[2], u[2]>>

\* lines 145-176 for one goods item: its candidate, or NoBest
GreedyCandidateBody(v, g, p) ==
    IF g.id \notin p.picked_up
    THEN IF PickupEligible(v, g, p)
         THEN [action |-> "pickup", goods |-> g,
               score |-> PickupScore(v, g,
                   TravelTime(v, p.current_location, g.pickup_location))]
         ELSE NoBest
    ELSE IF DeliveryEligible(v, g, p)
         THEN [action |-> "delivery", goods |-> g,
               score |-> DeliveryScore(v, g,
                   TravelTime(v, p.current_location, g.delivery_location))]
         ELSE NoBest

\* GreedyCandidate without the test of lines 145-146, which skips the goods
\* already delivered
GreedyCandidateKeepsDelivered(v, g, p) == GreedyCandidateBody(v, g, p)

GreedyCandidate(v, g, p) ==
    IF g.id \in p.delivered THEN NoBest ELSE GreedyCandidateBody(v, g, p)

\* GreedyBetter with >= for >: the last of the best candidates wins
GreedyBetterOrEqual(cand, best) ==
    cand.action # "none"
    /\ (best.action = "none" \/ ~FracGt(best.score, cand.score))

\* lines 158 and 173: score > best_score, best_score starting at -inf
GreedyBetter(cand, best) ==
    cand.action # "none"
    /\ (best.action = "none" \/ FracGt(cand.score, best.score))

\* the for loop of lines 144-176 from goods i on
RECURSIVE GreedyScan(_, _, _, _)
GreedyScan(v, p, i, best) ==
    IF i > Len(p.goods) THEN best
    ELSE LET cand == GreedyCandidate(v, p.goods[i], p)
         IN  GreedyScan(v, p, i + 1,
                        IF GreedyBetter(cand, best) THEN cand ELSE best)

GreedyBest(v, p) == GreedyScan(v, p, 1, NoBest)

\* line 198: what a committed pickup adds to total_distance; q is the
\* planning state after the commit, so the stop location is the position
GreedyDistanceAdded(v, q) ==
    IF Len(q.route.stops) = 1
    THEN DistanceTo(v.current_location, q.current_location)
    ELSE DistanceTo(q.route.stops[Len(q.route.stops)].location,
                    q.current_location)

\* lines 183-215: commit the best candidate
GreedyCommit(v, p, best) ==
    LET q == Commit(v, p, best)
    IN  IF best.action = "pickup"
        THEN [q EXCEPT !.route.total_distance = @ + GreedyDistanceAdded(v, q)]
        ELSE q

\* Finished without lines 217 and 323: total_time is left as constructed
FinishedWithoutTotalTime(p) == p.route

\* lines 217-218 and 323-324
Finished(p) == [p.route EXCEPT !.total_time = p.current_time]

----------------------------------------------------------------------------
(* _optimize_by_distance: the nearest-action builder *)

\* DistanceCandidate without the band of line 295: a delivery need only be
\* strictly nearer
DistanceCandidateWithoutBand(v, g, p, best) ==
    IF g.id \in p.delivered THEN best
    ELSE IF g.id \notin p.picked_up
    THEN LET distance == DistanceTo(p.current_location, g.pickup_location)
         IN  IF PickupEligible(v, g, p)
                /\ (best.action = "none" \/ distance < best.distance)
             THEN [action |-> "pickup", goods |-> g, distance |-> distance]
             ELSE best
    ELSE LET distance == DistanceTo(p.current_location, g.delivery_location)
         IN  IF DeliveryEligible(v, g, p)
                /\ (best.action = "none" \/ distance < best.distance)
             THEN [action |-> "delivery", goods |-> g, distance |-> distance]
             ELSE best

\* lines 277-298 for one goods item, against the best so far
DistanceCandidate(v, g, p, best) ==
    IF g.id \in p.delivered THEN best
    ELSE IF g.id \notin p.picked_up
    THEN LET distance == DistanceTo(p.current_location, g.pickup_location)
         IN  IF PickupEligible(v, g, p)
                /\ (best.action = "none" \/ distance < best.distance)
             THEN [action |-> "pickup", goods |-> g, distance |-> distance]
             ELSE best
    ELSE LET distance == DistanceTo(p.current_location, g.delivery_location)
         IN  IF DeliveryEligible(v, g, p)
                /\ (best.action = "none"
                    \/ distance < best.distance - DeliveryBand)
             THEN [action |-> "delivery", goods |-> g, distance |-> distance]
             ELSE best

\* the for loop of lines 276-298 from goods i on; min_distance starts at inf
RECURSIVE DistanceScan(_, _, _, _)
DistanceScan(v, p, i, best) ==
    IF i > Len(p.goods) THEN best
    ELSE DistanceScan(v, p, i + 1, DistanceCandidate(v, p.goods[i], p, best))

DistanceBest(v, p) == DistanceScan(v, p, 1, NoBest)

----------------------------------------------------------------------------
(* _optimize_by_time_window and find_k_shortest_routes *)

\* Earlier on time_to_expiry alone, without the close of the pickup window
EarlierByExpiryOnly(x, y) == x.time_to_expiry < y.time_to_expiry

\* line 328: goods by (time_to_expiry, pickup window close), ascending
Earlier(x, y) ==
    \/ x.time_to_expiry < y.time_to_expiry
    \/ /\ x.time_to_expiry = y.time_to_expiry
       /\ x.pickup_time_window[2] < y.pickup_time_window[2]

SortByDeadline(gs) ==
    StableSort(gs, [i \in 1..Len(gs) |-> [j \in 1..Len(gs) |->
        Earlier(gs[i], gs[j])]])

\* r in rs, by dataclass equality
InRoutes(r, rs) == \E i \in 1..Len(rs) : rs[i] = r

\* Collect1 without the test of line 246
Collect1Always(rs, r1) == Append(rs, r1)

\* lines 246-247
Collect1(rs, r1) == IF r1.stops # <<>> THEN Append(rs, r1) ELSE rs

\* lines 251-252
Collect2(rs, r2, r1) ==
    IF r2.stops # <<>> /\ r2 # r1 THEN Append(rs, r2) ELSE rs

\* lines 256-257
Collect3(rs, r3) ==
    IF r3.stops # <<>> /\ ~InRoutes(r3, rs) THEN Append(rs, r3) ELSE rs

\* RanksBefore with total_time for -total_time in the key
RanksBeforeSlowestFirst(x, y) ==
    \/ TotalGoodsSaved(x) > TotalGoodsSaved(y)
    \/ /\ TotalGoodsSaved(x) = TotalGoodsSaved(y)
       /\ x.total_time > y.total_time

\* line 260: x sorts before y under key (total_goods_saved, -total_time),
\* reverse
RanksBefore(x, y) ==
    \/ TotalGoodsSaved(x) > TotalGoodsSaved(y)
    \/ /\ TotalGoodsSaved(x) = TotalGoodsSaved(y)
       /\ x.total_time < y.total_time

SortRoutes(rs) ==
    StableSort(rs, [i \in 1..Len(rs) |-> [j \in 1..Len(rs) |->
        RanksBefore(rs[i], rs[j])]])

\* routes[:kk] for kk >= 0
Take(rs, kk) == SubSeq(rs, 1, IF kk < Len(rs) THEN kk ELSE Len(rs))

----------------------------------------------------------------------------
(* Hand-constructed routes, for Route.is_feasible on its own *)

HandCatalog ==
    [quantity : {50},
     pickup_location : {0},
     delivery_location : {20},
     time_to_expiry : {10},
     priority : {1},
     pickup_time_window : {<<0, 120>>}]
    \cup
    [quantity : {80},
     pickup_location : {1},
     delivery_location : {20},
     time_to_expiry : {60},
     priority : {1},
     pickup_time_window : {<<0, 120>>}]

HandGoodsLists ==
    UNION {{[i \in 1..n |-> WithId(cs[i], i)] : cs \in [1..n -> HandCatalog]}
           : n \in 1..MaxHandGoods}

\* arrival times of hand-written delivery stops, minutes; is_feasible does
\* not read the arrival time of a pickup stop, which is written as 10
HandArrivals == {10, 30}

HandStops(v, gs) ==
    {RouteStop(gs[i].pickup_location, "pickup", gs[i], Minutes(v, 10)) :
        i \in 1..Len(gs)}
    \cup
    {RouteStop(gs[i].delivery_location, "delivery", gs[i], Minutes(v, t)) :
        i \in 1..Len(gs), t \in HandArrivals}

HandRoutes(v, gs) ==
    {[NewRoute(v) EXCEPT !.stops = ss] :
        ss \in UNION {[1..n -> HandStops(v, gs)] : n \in 0..MaxStops}}

----------------------------------------------------------------------------
(* Inputs the constructors accept although they are malformed: the          *)
(* dataclasses of lines 39-50 and 60-67 have no __post_init__ and no        *)
(* builder tests its arguments                                              *)

\* vehicles with a capacity of 0 among them
MalformedVehicles ==
    [capacity : {0, 100}, current_location : {0}, speed : {40}]

\* goods with a quantity of 0 or a window that opens after it closes among
\* them
MalformedCatalog ==
    [quantity : {0, 30},
     pickup_location : {0},
     delivery_location : {20},
     time_to_expiry : {60},
     priority : {1},
     pickup_time_window : {<<0, 120>>, <<130, 120>>}]

MalformedGoodsLists ==
    UNION {{[i \in 1..n |-> WithId(cs[i], i)] :
               cs \in [1..n -> MalformedCatalog]} : n \in 0..MaxGoods}

----------------------------------------------------------------------------
(* Goods of different urgency whose candidates tie in score: from A, the    *)
(* pickup at A of an item that expires in 100 minutes scores 10 + 50 - 0,    *)
(* the pickup at B, 30 minutes away, of an item that expires in 40 minutes   *)
(* scores 25 + 50 - 15.  The pickup at A of an item of priority 4 that       *)
(* expires in 40 minutes scores 25 + 20 - 0, as does the pickup at B of the  *)
(* item of priority 1 that expires in 100 minutes, 10 + 50 - 15.  Two items  *)
(* that differ in the close of the pickup window alone have the same         *)
(* urgency and the same scores.                                              *)

TieCatalog ==
    [quantity : {30},
     pickup_location : {0, 20},
     delivery_location : {20},
     time_to_expiry : {40, 100},
     priority : {1},
     pickup_time_window : {<<0, 120>>}]
    \cup
    [quantity : {30},
     pickup_location : {0},
     delivery_location : {20},
     time_to_expiry : {40},
     priority : {4},
     pickup_time_window : {<<0, 120>>}]
    \cup
    [quantity : {30},
     pickup_location : {0},
     delivery_location : {20},
     time_to_expiry : {40},
     priority : {1},
     pickup_time_window : {<<0, 60>>}]

TieGoodsLists ==
    UNION {{[i \in 1..n |-> WithId(cs[i], i)] : cs \in [1..n -> TieCatalog]}
           : n \in 0..MaxGoods}

----------------------------------------------------------------------------
(* Goods at the boundaries of the tests of the builders: a time to expiry   *)
(* of 0, of 14 and of 15 minutes, the service duration, with the delivery    *)
(* where the pickup is; deliveries 0, 1 and 20 km from the pickup, on both   *)
(* sides of the band of 1 km; a pickup window that opens 30 minutes after    *)
(* the start of the run                                                      *)

BoundaryCatalog ==
    [quantity : {30},
     pickup_location : {0},
     delivery_location : {0},
     time_to_expiry : {0, 14, 15},
     priority : {1},
     pickup_time_window : {<<0, 120>>}]
    \cup
    [quantity : {30},
     pickup_location : {0},
     delivery_location : {0, 1, 20},
     time_to_expiry : {60},
     priority : {1},
     pickup_time_window : {<<0, 120>>}]
    \cup
    [quantity : {30},
     pickup_location : {0},
     delivery_location : {20},
     time_to_expiry : {60},
     priority : {1},
     pickup_time_window : {<<30, 120>>}]

BoundaryGoodsLists ==
    UNION {{[i \in 1..n |-> WithId(cs[i], i)] :
               cs \in [1..n -> BoundaryCatalog]} : n \in 0..MaxGoods}

----------------------------------------------------------------------------
(* Goods whose urgency score alone is computed *)

\* every priority, and times to expiry on both sides of the floor of 1
UrgencyCatalog ==
    [quantity : {30},
     pickup_location : {0},
     delivery_location : {20},
     time_to_expiry : (-1)..MaxExpiry,
     priority : 1..5,
     pickup_time_window : {<<0, 120>>}]

\* two goods items, to compare their scores
UrgencyGoodsLists ==
    {[i \in 1..2 |-> WithId(cs[i], i)] : cs \in [1..2 -> UrgencyCatalog]}

----------------------------------------------------------------------------
(* Initial states *)

NoCheck == [builder |-> "none"]

Produced == [route1 |-> route1, route2 |-> route2, route3 |-> route3,
             routes |-> routes]

InitCommon ==
    /\ k = 0
    /\ plan = [goods |-> <<>>, current_location |-> vehicle.current_location,
               current_time |-> 0, picked_up |-> {}, delivered |-> {},
               route |-> NewRoute(vehicle)]
    /\ route1 = NewRoute(vehicle)
    /\ route2 = NewRoute(vehicle)
    /\ route3 = NewRoute(vehicle)
    /\ routes = <<>>
    /\ result = <<>>
    /\ checked = NoCheck
    /\ run = 1
    /\ prev = Produced

Init ==
    /\ vehicle \in Vehicles
    /\ goods_list \in GoodsLists
    /\ pc = "idle"
    /\ hand = NewRoute(vehicle)
    /\ InitCommon

InitHand ==
    /\ vehicle \in Vehicles
    /\ goods_list \in HandGoodsLists
    /\ pc = "hand"
    /\ hand \in HandRoutes(vehicle, goods_list)
    /\ InitCommon

\* the optimizer is constructed on any vehicle and called on any goods list
InitMalformed ==
    /\ vehicle \in MalformedVehicles
    /\ goods_list \in MalformedGoodsLists
    /\ pc = "idle"
    /\ hand = NewRoute(vehicle)
    /\ InitCommon

InitTies ==
    /\ vehicle \in Vehicles
    /\ goods_list \in TieGoodsLists
    /\ pc = "idle"
    /\ hand = NewRoute(vehicle)
    /\ InitCommon

InitBoundary ==
    /\ vehicle \in Vehicles
    /\ goods_list \in BoundaryGoodsLists
    /\ pc = "idle"
    /\ hand = NewRoute(vehicle)
    /\ InitCommon

InitUrgency ==
    /\ vehicle \in Vehicles
    /\ goods_list \in UrgencyGoodsLists
    /\ pc = "urgency"
    /\ hand = NewRoute(vehicle)
    /\ InitCommon

----------------------------------------------------------------------------
(* Actions *)

\* the builder run in progress has a next stop to commit
GreedyContinues == LoopCondition(plan) /\ GreedyBest(vehicle, plan) # NoBest

DistanceContinues ==
    LoopCondition(plan) /\ DistanceBest(vehicle, plan) # NoBest

\* lines 242-245, 125-136: find_k_shortest_routes is called and calls
\* optimize_route
FindKShortestRoutes ==
    /\ pc = "idle"
    /\ routes' = <<>>
    /\ plan' = PlanningState(vehicle, SortByUrgency(goods_list))
    /\ goods_list' = ArgumentAfterSorted(goods_list)
    /\ pc' = "optimize_route"
    /\ UNCHANGED <<vehicle, k, route1, route2, route3, result, checked, run,
                   prev, hand>>

\* lines 138-215: one iteration of the while loop of optimize_route that
\* commits a stop
OptimizeRouteStep ==
    /\ pc \in {"optimize_route", "by_time_window"}
    /\ GreedyContinues
    /\ plan' = GreedyCommit(vehicle, plan, GreedyBest(vehicle, plan))
    /\ UNCHANGED <<vehicle, goods_list, k, pc, route1, route2, route3, routes,
                   result, checked, run, prev, hand>>

\* lines 126/138/180, 217-218, 246-250, 265-269: optimize_route returns
\* route1, which is collected, and _optimize_by_distance is called
OptimizeRouteReturn ==
    /\ pc = "optimize_route"
    /\ ~GreedyContinues
    /\ route1' = Finished(plan)
    /\ routes' = Collect1(routes, route1')
    /\ plan' = PlanningState(vehicle, goods_list)
    /\ pc' = "by_distance"
    /\ UNCHANGED <<vehicle, goods_list, k, route2, route3, result, checked,
                   run, prev, hand>>

\* lines 271-321: one iteration of the while loop of _optimize_by_distance
\* that commits a stop
OptimizeByDistanceStep ==
    /\ pc = "by_distance"
    /\ DistanceContinues
    /\ plan' = Commit(vehicle, plan, DistanceBest(vehicle, plan))
    /\ UNCHANGED <<vehicle, goods_list, k, pc, route1, route2, route3, routes,
                   result, checked, run, prev, hand>>

\* lines 271/301, 323-324, 251-255, 328-329, 125-136: _optimize_by_distance
\* returns route2, which is collected, and _optimize_by_time_window is
\* called and calls optimize_route
OptimizeByDistanceReturn ==
    /\ pc = "by_distance"
    /\ ~DistanceContinues
    /\ route2' = Finished(plan)
    /\ routes' = Collect2(routes, route2', route1)
    /\ plan' = PlanningState(vehicle,
                             SortByUrgency(SortByDeadline(goods_list)))
    /\ pc' = "by_time_window"
    /\ UNCHANGED <<vehicle, goods_list, k, route1, route3, result, checked,
                   run, prev, hand>>

\* lines 126/138/180, 217-218, 256-257: _optimize_by_time_window returns
\* route3, which is collected
OptimizeByTimeWindowReturn ==
    /\ pc = "by_time_window"
    /\ ~GreedyContinues
    /\ route3' = Finished(plan)
    /\ routes' = Collect3(routes, route3')
    /\ pc' = "rank"
    /\ UNCHANGED <<vehicle, goods_list, k, plan, route1, route2, result,
                   checked, run, prev, hand>>

\* lines 260-261: the collected routes are sorted in place and the first k
\* returned; k is an argument of the call that no earlier line reads
Rank ==
    /\ pc = "rank"
    /\ \E kk \in 0..MaxK :
          /\ k' = kk
          /\ routes' = SortRoutes(routes)
          /\ result' = Take(routes', kk)
    /\ pc' = "returned"
    /\ UNCHANGED <<vehicle, goods_list, plan, route1, route2, route3, checked,
                   run, prev, hand>>

BuilderRoute(b) ==
    IF b = "optimize_route" THEN route1
    ELSE IF b = "by_distance" THEN route2
    ELSE route3

\* lines 94-110: the caller checks the route of one builder
IsFeasibleBuilt ==
    /\ pc = "returned"
    /\ \E b \in {"optimize_route", "by_distance", "by_time_window"} :
          checked' = [builder |-> b, route |-> BuilderRoute(b),
                      verdict |-> IsFeasible(BuilderRoute(b))]
    /\ UNCHANGED <<vehicle, goods_list, k, pc, plan, route1, route2, route3,
                   routes, result, run, prev, hand>>

\* the caller plans again, on the same vehicle and the same goods list
CallAgain ==
    /\ pc = "returned"
    /\ run < MaxRuns
    /\ prev' = Produced
    /\ run' = run + 1
    /\ k' = 0
    /\ result' = <<>>
    /\ checked' = NoCheck
    /\ pc' = "idle"
    /\ UNCHANGED <<vehicle, goods_list, plan, route1, route2, route3, routes,
                   hand>>

\* lines 94-110: the caller checks a hand-constructed route
IsFeasibleHand ==
    /\ pc = "hand"
    /\ checked' = [builder |-> "hand", route |-> hand,
                   verdict |-> IsFeasible(hand)]
    /\ pc' = "checked"
    /\ UNCHANGED <<vehicle, goods_list, k, plan, route1, route2, route3,
                   routes, result, run, prev, hand>>

Next ==
    \/ FindKShortestRoutes
    \/ OptimizeRouteStep
    \/ OptimizeRouteReturn
    \/ OptimizeByDistanceStep
    \/ OptimizeByDistanceReturn
    \/ OptimizeByTimeWindowReturn
    \/ Rank
    \/ IsFeasibleBuilt
    \/ CallAgain

Spec == Init /\ [][Next]_vars

NextHand == IsFeasibleHand

SpecHand == InitHand /\ [][NextHand]_vars

SpecMalformed == InitMalformed /\ [][Next]_vars

SpecTies == InitTies /\ [][Next]_vars

SpecBoundary == InitBoundary /\ [][Next]_vars

\* lines 52-57: the caller asks every goods item for its urgency score
UrgencyScoreCalls ==
    /\ pc = "urgency"
    /\ checked' = [builder |-> "urgency",
                   scores |-> [i \in 1..Len(goods_list) |->
                                  UrgencyScore(goods_list[i])]]
    /\ pc' = "scored"
    /\ UNCHANGED <<vehicle, goods_list, k, plan, route1, route2, route3,
                   routes, result, run, prev, hand>>

NextUrgency == UrgencyScoreCalls

SpecUrgency == InitUrgency /\ [][NextUrgency]_vars

----------------------------------------------------------------------------
(* Properties *)

Builders == {"optimize_route", "by_distance", "by_time_window"}

\* the builder routes that have been returned so far in this run
Returned ==
    (IF pc \in {"by_distance", "by_time_window", "rank", "returned"}
     THEN {route1} ELSE {})
    \cup (IF pc \in {"by_time_window", "rank", "returned"}
          THEN {route2} ELSE {})
    \cup (IF pc \in {"rank", "returned"} THEN {route3} ELSE {})

\* the routes under construction or returned
Built ==
    Returned
    \cup (IF pc \in Builders THEN {plan.route} ELSE {})

\* the stops of r that are action a on the goods with id i
StopsOf(r, a, i) ==
    {n \in 1..Len(r.stops) :
        r.stops[n].action = a /\ r.stops[n].goods.id = i}

\* the load on board after stop n of r, replayed from 0
RECURSIVE LoadAfter(_, _)
LoadAfter(r, n) ==
    IF n = 0 THEN 0
    ELSE LoadAfter(r, n - 1)
         + (IF r.stops[n].action = "pickup" THEN r.stops[n].goods.quantity
            ELSE 0 - r.stops[n].goods.quantity)

\* stop n of r breaks a rule of the replay: a pickup brings the load above
\* the capacity, or a delivery arrives after the expiry of its item
Violates(r, n) ==
    IF r.stops[n].action = "pickup"
    THEN LoadAfter(r, n) > r.vehicle.capacity
    ELSE r.stops[n].arrival_time
             > r.stops[n].goods.time_to_expiry * r.vehicle.speed

\* C1: the route of every builder is reported feasible by Route.is_feasible
C1_BuiltRouteFeasible ==
    checked.builder \in Builders => checked.verdict.feasible

\* C2: in every route under construction or returned by a builder, each
\* goods id has at most one pickup stop and at most one delivery stop, and
\* every delivery stop comes after the pickup stop of the same goods
C2_PickupOncePrecedesDeliveryOnce ==
    \A r \in Built :
        \A i \in 1..Len(goods_list) :
            /\ Cardinality(StopsOf(r, "pickup", i)) <= 1
            /\ Cardinality(StopsOf(r, "delivery", i)) <= 1
            /\ \A d \in StopsOf(r, "delivery", i) :
                   \E q \in StopsOf(r, "pickup", i) : q < d

\* a builder has returned a route that delivers every goods item of a list
\* of two
C2_Witness ==
    /\ pc = "returned"
    /\ Len(goods_list) = 2
    /\ \E r \in Built : Len(r.stops) = 4 /\ Len(r.goods_delivered) = 2

\* C3: is_feasible answers infeasible exactly when some stop violates a rule
\* of the replay, with the reason of the first such stop: the location of a
\* pickup over capacity, the goods of a delivery after expiry
C3_VerdictOfFirstViolation ==
    checked.builder # "none" =>
        LET r == checked.route
            bad == {n \in 1..Len(r.stops) : Violates(r, n)}
        IN  IF bad = {}
            THEN checked.verdict
                     = [feasible |-> TRUE, reason |-> "Route is feasible",
                        name |-> 0]
            ELSE LET f == CHOOSE n \in bad : \A m \in bad : n <= m
                 IN  IF r.stops[f].action = "pickup"
                     THEN checked.verdict
                              = [feasible |-> FALSE,
                                 reason |-> "Capacity exceeded at",
                                 name |-> r.stops[f].location]
                     ELSE checked.verdict
                              = [feasible |-> FALSE,
                                 reason |-> "expired before delivery",
                                 name |-> r.stops[f].goods.id]

\* a hand-constructed route was checked whose first violation is a delivery
\* after expiry, with a pickup over capacity further on
C3_Witness ==
    /\ pc = "checked"
    /\ \E n \in 1..Len(hand.stops), m \in 1..Len(hand.stops) :
          /\ n < m
          /\ hand.stops[n].action = "delivery" /\ Violates(hand, n)
          /\ hand.stops[m].action = "pickup" /\ Violates(hand, m)
          /\ \A j \in 1..(n - 1) : ~Violates(hand, j)

\* the pairs of pickup stops of r, of two goods items that together exceed
\* the capacity, that come before every stop of ds
OverloadingPickups(r, ds) ==
    {pq \in (1..Len(r.stops)) \X (1..Len(r.stops)) :
        /\ r.stops[pq[1]].action = "pickup"
        /\ r.stops[pq[2]].action = "pickup"
        /\ r.stops[pq[1]].goods.id # r.stops[pq[2]].goods.id
        /\ r.stops[pq[1]].goods.quantity + r.stops[pq[2]].goods.quantity
               > r.vehicle.capacity
        /\ \A d \in ds : d > pq[1] /\ d > pq[2]}

\* the delivery stops of r of the goods item of stop n
DeliveriesOf(r, n) == StopsOf(r, "delivery", r.stops[n].goods.id)

AllDeliveries(r) == {n \in 1..Len(r.stops) : r.stops[n].action = "delivery"}

\* is_feasible answered "capacity exceeded" at the location of the first
\* pickup stop that brings the load above the capacity
CapacityVerdict ==
    LET r == checked.route
        over == {n \in 1..Len(r.stops) :
                    r.stops[n].action = "pickup" /\ Violates(r, n)}
    IN  \E f \in over :
            /\ \A m \in over : f <= m
            /\ checked.verdict = [feasible |-> FALSE,
                                  reason |-> "Capacity exceeded at",
                                  name |-> r.stops[f].location]

\* C4, as claimed: a hand-constructed route with the pickups of two goods
\* items that together exceed the capacity, both before the delivery of
\* either, is answered "capacity exceeded" at the first overflowing pickup
C4_OverloadBeforeOwnDeliveries ==
    checked.builder = "hand" =>
        ((\E pq \in OverloadingPickups(hand, {}) :
             \A d \in DeliveriesOf(hand, pq[1]) \cup DeliveriesOf(hand, pq[2]) :
                 d > pq[1] /\ d > pq[2])
         => CapacityVerdict)

\* C4, amended: a hand-constructed route with the pickups of two goods
\* items that together exceed the capacity, both before every delivery stop
\* of the route, is answered "capacity exceeded" at the first overflowing
\* pickup
C4_OverloadBeforeAnyDelivery ==
    checked.builder = "hand" =>
        (OverloadingPickups(hand, AllDeliveries(hand)) # {}
         => CapacityVerdict)

\* such a route was checked, one that goes on to deliver one of the two
\* items
C4_Witness ==
    /\ pc = "checked"
    /\ \E pq \in OverloadingPickups(hand, AllDeliveries(hand)) :
           DeliveriesOf(hand, pq[1]) # {}

\* C5: find_k_shortest_routes returns no two routes with the same stop
\* sequence
C5_NoTwoRoutesWithSameStops ==
    pc = "returned" =>
        \A i \in 1..Len(result), j \in 1..Len(result) :
            i # j => result[i].stops # result[j].stops

\* route x ranks strictly before route y: more goods delivered, or as many
\* in less time
Outranks(x, y) ==
    \/ SumQuantity(x.goods_delivered) > SumQuantity(y.goods_delivered)
    \/ /\ SumQuantity(x.goods_delivered) = SumQuantity(y.goods_delivered)
       /\ x.total_time < y.total_time

\* C6: find_k_shortest_routes returns at most k routes, each non-empty and
\* the route of a builder, ordered by goods delivered descending then time
\* ascending, and no collected route left out outranks a returned one
C6_TopKRanked ==
    pc = "returned" =>
        /\ Len(result) <= k
        /\ \A i \in 1..Len(result) :
               /\ result[i].stops # <<>>
               /\ result[i] \in {route1, route2, route3}
        /\ \A i \in 1..Len(result), j \in 1..Len(result) :
               i < j => ~Outranks(result[j], result[i])
        /\ \A i \in 1..Len(result), j \in (Len(result) + 1)..Len(routes) :
               ~Outranks(routes[j], result[i])

\* two collected routes deliver as much, the faster one was ranked first
\* and only it was returned
C6_Witness ==
    /\ pc = "returned"
    /\ k = 1
    /\ Len(result) = 1
    /\ Len(routes) >= 2
    /\ SumQuantity(routes[1].goods_delivered) > 0
    /\ SumQuantity(routes[1].goods_delivered)
           = SumQuantity(routes[2].goods_delivered)
    /\ routes[1].total_time < routes[2].total_time

\* C7: on an empty goods list every builder returns a route with no stop
\* and nothing delivered, and find_k_shortest_routes returns the empty list
C7_EmptyGoodsList ==
    goods_list = <<>> =>
        /\ \A r \in Built :
               /\ r.stops = <<>>
               /\ r.goods_delivered = <<>>
               /\ SumQuantity(r.goods_delivered) = 0
        /\ pc \in {"rank", "returned"} => routes = <<>>
        /\ pc = "returned" => result = <<>>

\* find_k_shortest_routes returned, asked for three routes of no goods
C7_Witness ==
    /\ goods_list = <<>>
    /\ pc = "returned"
    /\ k = 3
    /\ Cardinality(Returned) = 1

\* a list of N goods gives a route at most N pickup stops and at most N
\* delivery stops
BoundedStops ==
    \A r \in Built :
        /\ Cardinality({n \in 1..Len(r.stops) : r.stops[n].action = "pickup"})
               <= Len(goods_list)
        /\ Cardinality({n \in 1..Len(r.stops) :
               r.stops[n].action = "delivery"}) <= Len(goods_list)
        /\ Len(r.stops) <= 2 * Len(goods_list)

\* a step of a builder run ends the run or adds exactly one stop to its
\* route
OneStopOrReturn ==
    pc \in Builders =>
        \/ pc' # pc
        \/ /\ Len(plan'.route.stops) = Len(plan.route.stops) + 1
           /\ SubSeq(plan'.route.stops, 1, Len(plan.route.stops))
                  = plan.route.stops

\* C8: every iteration of a builder's loop commits exactly one stop or ends
\* the loop, and the route never has more than N pickup stops and N delivery
\* stops: a run ends within 2N + 1 iterations
C8_BuilderTerminates == [][OneStopOrReturn /\ BoundedStops']_vars

\* a builder returned a route with all the stops a list of two goods allows
C8_Witness ==
    /\ pc = "by_distance"
    /\ Len(goods_list) = 2
    /\ Len(route1.stops) = 4

\* C9: a second run on the same vehicle and goods list produces the routes
\* of the first run: the same stops, arrival times, total_time,
\* total_distance and goods_delivered, for each builder and for
\* find_k_shortest_routes
C9_SecondRunSame ==
    run > 1 =>
        /\ pc \in {"by_distance", "by_time_window", "rank", "returned"}
               => route1 = prev.route1
        /\ pc \in {"by_time_window", "rank", "returned"}
               => route2 = prev.route2
        /\ pc \in {"rank", "returned"} => route3 = prev.route3
        /\ pc = "returned" =>
               /\ routes = prev.routes
               /\ result = SubSeq(prev.routes, 1,
                                  IF k < Len(prev.routes) THEN k
                                  ELSE Len(prev.routes))

\* the second run returned, with two different routes collected
C9_Witness ==
    /\ run = 2
    /\ pc = "returned"
    /\ Len(routes) >= 2
    /\ routes[1].stops # routes[2].stops
    /\ k >= 2

\* the scenario: a vehicle of capacity 100 and speed 40 km/h at A, one goods
\* item of quantity 30 to pick up at A and deliver at B, 20 km from A, with
\* time to expiry 60 and pickup window [0, 120]
Scenario ==
    /\ vehicle = [capacity |-> 100, current_location |-> 0, speed |-> 40]
    /\ goods_list = <<[id |-> 1, quantity |-> 30, pickup_location |-> 0,
                       delivery_location |-> 20, time_to_expiry |-> 60,
                       priority |-> 1, pickup_time_window |-> <<0, 120>>]>>

\* the greedy route of the scenario: two stops, the pickup at time 0, the
\* delivery at time t minutes, feasible, 30 delivered
ScenarioRoute(t) ==
    /\ Len(route1.stops) = 2
    /\ route1.stops[1].action = "pickup"
    /\ route1.stops[1].goods = goods_list[1]
    /\ route1.stops[1].location = 0
    /\ route1.stops[1].arrival_time = 0
    /\ route1.stops[2].action = "delivery"
    /\ route1.stops[2].goods = goods_list[1]
    /\ route1.stops[2].location = 20
    /\ route1.stops[2].arrival_time = t * vehicle.speed
    /\ IsFeasible(route1).feasible
    /\ SumQuantity(route1.goods_delivered) = 30

\* C10, as claimed: in the scenario the greedy builder delivers at minute 30
C10_DeliveryAt30 ==
    (Scenario /\ route1 \in Returned) => ScenarioRoute(30)

\* C10, amended: in the scenario the greedy builder delivers at minute 45,
\* the 15 minutes of service at the pickup and 30 minutes of travel
C10_DeliveryAt45 ==
    (Scenario /\ route1 \in Returned) => ScenarioRoute(45)

\* the scenario was planned and the greedy route checked
C10_Witness ==
    /\ Scenario
    /\ pc = "returned"
    /\ checked.builder = "optimize_route"
    /\ checked.verdict.feasible

\* the routes of the greedy builder, under construction or returned
GreedyBuilt ==
    (Returned \cap {route1, route3})
    \cup (IF pc \in {"optimize_route", "by_time_window"} THEN {plan.route}
          ELSE {})

\* leaving stop n of r after its service and driving straight to the delivery
\* location of its goods arrives after their expiry
LateAfterPickup(r, n) ==
    LET s == r.stops[n]
        away == IF s.location >= s.goods.delivery_location
                THEN s.location - s.goods.delivery_location
                ELSE s.goods.delivery_location - s.location
    IN  s.arrival_time + 15 * r.vehicle.speed + away * 60
            > s.goods.time_to_expiry * r.vehicle.speed

\* the list is the single item g, whose pickup the vehicle reaches by the
\* close of its window and whose delivery is too late once it is picked up
PickupOnlyInput ==
    /\ Len(goods_list) = 1
    /\ LET g == goods_list[1]
           there == IF g.pickup_location >= vehicle.current_location
                    THEN g.pickup_location - vehicle.current_location
                    ELSE vehicle.current_location - g.pickup_location
           on == IF g.pickup_location >= g.delivery_location
                 THEN g.pickup_location - g.delivery_location
                 ELSE g.delivery_location - g.pickup_location
       IN  /\ there * 60 <= g.pickup_time_window[2] * vehicle.speed
           /\ there * 60 + 15 * vehicle.speed + on * 60
                  > g.time_to_expiry * vehicle.speed

\* r is the pickup of the single item and nothing else, ended after the
\* service at the pickup
PickupOnlyRoute(r) ==
    /\ Len(r.stops) = 1
    /\ r.stops[1].action = "pickup"
    /\ r.stops[1].goods = goods_list[1]
    /\ r.goods_delivered = <<>>
    /\ r.total_time = r.stops[1].arrival_time + 15 * vehicle.speed

\* C11: the greedy builder never commits the delivery of an item whose
\* delivery is too late once it is picked up; for a single such item whose
\* pickup is eligible, the returned route is the pickup alone, nothing is
\* delivered, and the item is on board when the run ends
C11_PickupWithoutDelivery ==
    /\ \A r \in GreedyBuilt : \A n \in 1..Len(r.stops) :
           (r.stops[n].action = "pickup" /\ LateAfterPickup(r, n))
               => StopsOf(r, "delivery", r.stops[n].goods.id) = {}
    /\ PickupOnlyInput =>
           /\ \A r \in Returned \cap {route1, route3} : PickupOnlyRoute(r)
           /\ (pc \in {"optimize_route", "by_time_window"}
               /\ plan.route.stops # <<>>)
                  => /\ plan.picked_up = {goods_list[1].id}
                     /\ plan.delivered = {}
                     /\ Len(plan.route.stops) = 1

\* the greedy builder has returned the route of a single item that expires
\* in 10 minutes and is 30 minutes from its delivery location
C11_Witness ==
    /\ PickupOnlyInput
    /\ goods_list[1].time_to_expiry = 10
    /\ pc = "returned"
    /\ PickupOnlyRoute(route1)

\* the length in km of the path from position a through the stops of ss from
\* stop i on
RECURSIVE PathLength(_, _, _)
PathLength(a, ss, i) ==
    IF i > Len(ss) THEN 0
    ELSE (IF ss[i].location >= a THEN ss[i].location - a
          ELSE a - ss[i].location)
         + PathLength(ss[i].location, ss, i + 1)

\* C12: the total_distance of every route returned by a builder is the
\* distance from the vehicle's start through its stops, 0 for no stops
C12_DistanceCacheIsPathLength ==
    \A r \in Returned :
        r.total_distance
            = PathLength(r.vehicle.current_location, r.stops, 1)

\* the goods of the delivery stops of ss from stop i on, in order
RECURSIVE DeliveredBy(_, _)
DeliveredBy(ss, i) ==
    IF i > Len(ss) THEN <<>>
    ELSE IF ss[i].action = "delivery"
         THEN <<ss[i].goods>> \o DeliveredBy(ss, i + 1)
         ELSE DeliveredBy(ss, i + 1)

\* the arrival time of stop n of r, from the stop before: its arrival, its
\* service duration and the travel between the two locations
ArrivalFromBefore(r, n) ==
    LET here == r.stops[n].location
        from == IF n = 1 THEN r.vehicle.current_location
                ELSE r.stops[n - 1].location
        left == IF n = 1 THEN 0
                ELSE r.stops[n - 1].arrival_time
                     + r.stops[n - 1].estimated_duration * r.vehicle.speed
    IN  left + (IF here >= from THEN here - from ELSE from - here) * 60

\* C13: in every route of a builder each arrival time follows from the stop
\* before (the start for the first stop, at time 0), every service takes 15
\* minutes, goods_delivered is the goods of the delivery stops in order, and
\* the total_time of a returned route is the last arrival plus its service,
\* 0 for no stops
C13_TimeAndDeliveredCaches ==
    /\ \A r \in Built :
           /\ \A n \in 1..Len(r.stops) :
                  /\ r.stops[n].arrival_time = ArrivalFromBefore(r, n)
                  /\ r.stops[n].estimated_duration = 15
           /\ r.goods_delivered = DeliveredBy(r.stops, 1)
    /\ \A r \in Returned :
           r.total_time
               = IF r.stops = <<>> THEN 0
                 ELSE r.stops[Len(r.stops)].arrival_time
                      + 15 * r.vehicle.speed

\* a builder has returned a route of four stops at two places, with two
\* deliveries, that ends after its last arrival
C13_Witness ==
    /\ pc = "returned"
    /\ \E r \in Returned :
           /\ Len(r.stops) = 4
           /\ Len(r.goods_delivered) = 2
           /\ r.stops[1].location # r.stops[4].location
           /\ r.total_time > r.stops[4].arrival_time

\* the vehicle or an item of the goods list is malformed: a capacity or a
\* speed that is not positive, a quantity that is not positive, a pickup
\* window that opens after it closes
Malformed ==
    \/ vehicle.capacity <= 0
    \/ vehicle.speed <= 0
    \/ \E i \in 1..Len(goods_list) :
           \/ goods_list[i].quantity <= 0
           \/ goods_list[i].pickup_time_window[1]
                  > goods_list[i].pickup_time_window[2]

\* C14: on a malformed input no builder commits a stop and no builder
\* returns a route
C14_MalformedInputRejected ==
    Malformed => /\ Returned = {}
                 /\ \A r \in Built : r.stops = <<>>

\* a step leaves the vehicle and the goods list as they were, and a step
\* that is a call of is_feasible leaves every route as it was and reports
\* on a route as it was
InputsKept ==
    /\ vehicle' = vehicle
    /\ goods_list' = goods_list
    /\ (checked' # checked /\ checked'.builder # "none")
           => /\ <<route1, route2, route3, routes, result, hand>>'
                  = <<route1, route2, route3, routes, result, hand>>
              /\ checked'.route \in {route1, route2, route3, hand}

\* C15: no operation changes the vehicle, the goods list or an item of it,
\* and is_feasible changes nothing of the route it checks
C15_InputsUnchanged == [][InputsKept]_vars

\* the caller has planned a second time and checked a route, on a list that
\* is not in urgency order, and the greedy route ends away from the start
C15_Witness ==
    /\ pc = "returned"
    /\ run = 2
    /\ checked.builder = "optimize_route"
    /\ Len(goods_list) = 2
    /\ goods_list[1].time_to_expiry = 60
    /\ goods_list[2].time_to_expiry = 10
    /\ route1.stops # <<>>
    /\ route1.stops[Len(route1.stops)].location # vehicle.current_location

\* the score s, a fraction, is 1000 / max(time_to_expiry, 1)
\* + (6 - priority) * 10 for the goods g
IsUrgencyOf(s, g) ==
    LET floor == IF g.time_to_expiry > 1 THEN g.time_to_expiry ELSE 1
    IN  /\ s[2] > 0
        /\ s[1] * floor = (1000 + (6 - g.priority) * 10 * floor) * s[2]

\* the score s is at most the score t, as fractions of positive denominator
AtMost(s, t) == s[1] * t[2] <= t[1] * s[2]

\* C16: the urgency score is 1000 / max(time_to_expiry, 1)
\* + (6 - priority) * 10; of two goods of the same time to expiry the one of
\* the larger priority number has no larger score, and of two goods of the
\* same priority the one of the larger time to expiry has no larger score
C16_UrgencyFormulaMonotone ==
    pc = "scored" =>
        /\ \A i \in 1..Len(goods_list) :
               IsUrgencyOf(checked.scores[i], goods_list[i])
        /\ \A i, j \in 1..Len(goods_list) :
               LET g == goods_list[i]
                   h == goods_list[j]
               IN  /\ (g.time_to_expiry = h.time_to_expiry
                       /\ g.priority <= h.priority)
                          => AtMost(checked.scores[j], checked.scores[i])
                   /\ (g.priority = h.priority
                       /\ g.time_to_expiry <= h.time_to_expiry)
                          => AtMost(checked.scores[j], checked.scores[i])

\* the scores were computed of an item at its expiry and of an item of the
\* same priority with time left, whose score is smaller
C16_Witness ==
    /\ pc = "scored"
    /\ goods_list[1].time_to_expiry = 0
    /\ goods_list[2].time_to_expiry = 4
    /\ goods_list[1].priority = goods_list[2].priority
    /\ ~AtMost(checked.scores[1], checked.scores[2])

\* every goods item of the run with locals p is delivered
AllDelivered(p) == \A i \in 1..Len(p.goods) : p.goods[i].id \in p.delivered

\* the arrival at position loc when leaving the position of p at the clock
\* of p
ArrivalAt(p, loc) ==
    p.current_time
        + (IF loc >= p.current_location THEN loc - p.current_location
           ELSE p.current_location - loc) * 60

\* from the position of p at the clock of p, the pickup of every item not
\* picked up arrives after the close of its window and the delivery of every
\* item on board arrives after its expiry
NoEligibleAction(p) ==
    \A i \in 1..Len(p.goods) :
        LET g == p.goods[i]
        IN  g.id \notin p.delivered =>
                IF g.id \notin p.picked_up
                THEN ArrivalAt(p, g.pickup_location)
                         > g.pickup_time_window[2] * vehicle.speed
                ELSE ArrivalAt(p, g.delivery_location)
                         > g.time_to_expiry * vehicle.speed

\* a step that ends a builder run is taken with everything delivered or with
\* no eligible action left
EndsOnlyWhenDone ==
    (pc \in Builders /\ pc' # pc)
        => (AllDelivered(plan) \/ NoEligibleAction(plan))

\* C17: a builder run ends only when every item is delivered or no
\* undelivered item has an eligible action from the final position at the
\* final clock
C17_TerminationCondition == [][EndsOnlyWhenDone]_vars

\* the time-window builder has ended with an item on board that it can no
\* longer deliver in time
C17_Witness ==
    /\ pc = "rank"
    /\ ~AllDelivered(plan)
    /\ NoEligibleAction(plan)
    /\ plan.picked_up # plan.delivered
    /\ plan.delivered # {}

\* stop n of r was eligible when it was committed: a pickup arrives by the
\* close of the pickup window of its goods, a delivery by their expiry
EligibleStop(r, n) ==
    LET s == r.stops[n]
    IN  IF s.action = "pickup"
        THEN s.arrival_time <= s.goods.pickup_time_window[2] * r.vehicle.speed
        ELSE s.arrival_time <= s.goods.time_to_expiry * r.vehicle.speed

\* C18: every stop of every route of a builder, the greedy builder and the
\* nearest-action builder alike, was eligible when it was committed
C18_CommittedStopsEligible ==
    \A r \in Built : \A n \in 1..Len(r.stops) : EligibleStop(r, n)

\* the nearest-action builder has returned a route with a delivery at minute
\* 45 or later, the greedy builder a route with a delivery, and some builder
\* a route with a pickup that is not followed by its delivery
C18_Witness ==
    /\ pc = "returned"
    /\ \E n \in 1..Len(route2.stops) :
           /\ route2.stops[n].action = "delivery"
           /\ route2.stops[n].arrival_time >= 45 * vehicle.speed
    /\ \E n \in 1..Len(route1.stops) : route1.stops[n].action = "delivery"
    /\ \E r \in Returned : Len(r.stops) > 2 * Len(r.goods_delivered)

\* the actions eligible in the planning state p: the pickup of an item not
\* picked up that arrives by the close of its window, the delivery of an
\* item on board that arrives by its expiry
Candidates(p) ==
    {[goods |-> p.goods[i], action |-> "pickup"] :
        i \in {j \in 1..Len(p.goods) :
                 /\ p.goods[j].id \notin p.picked_up
                 /\ p.goods[j].id \notin p.delivered
                 /\ ArrivalAt(p, p.goods[j].pickup_location)
                        <= p.goods[j].pickup_time_window[2] * vehicle.speed}}
    \cup
    {[goods |-> p.goods[i], action |-> "delivery"] :
        i \in {j \in 1..Len(p.goods) :
                 /\ p.goods[j].id \in p.picked_up
                 /\ p.goods[j].id \notin p.delivered
                 /\ ArrivalAt(p, p.goods[j].delivery_location)
                        <= p.goods[j].time_to_expiry * vehicle.speed}}

\* the score of candidate c in the planning state p, as a fraction: the
\* urgency less 0.5 of the travel minutes for a pickup, the urgency plus 50
\* less 0.3 of the travel minutes for a delivery; numerator and denominator
\* are those of the score times 10 times the speed
ScoreIn(p, c) ==
    LET g == c.goods
        floor == IF g.time_to_expiry > 1 THEN g.time_to_expiry ELSE 1
        urgency == 1000 + (6 - g.priority) * 10 * floor
        travel == IF c.action = "pickup"
                  THEN ArrivalAt(p, g.pickup_location) - p.current_time
                  ELSE ArrivalAt(p, g.delivery_location) - p.current_time
    IN  IF c.action = "pickup"
        THEN <<urgency * 10 * vehicle.speed - 5 * travel * floor, floor>>
        ELSE <<(urgency + 50 * floor) * 10 * vehicle.speed
                   - 3 * travel * floor, floor>>

\* the candidate that the last stop of the planning state q commits
Committed(q) ==
    [goods |-> q.route.stops[Len(q.route.stops)].goods,
     action |-> q.route.stops[Len(q.route.stops)].action]

\* a step of the greedy builder that commits a stop
GreedyCommits ==
    /\ pc \in {"optimize_route", "by_time_window"}
    /\ pc' = pc
    /\ Len(plan'.route.stops) = Len(plan.route.stops) + 1

\* the stop a greedy step commits is an eligible candidate and no eligible
\* candidate has a larger score
CommitsMaximalScore ==
    GreedyCommits =>
        /\ Committed(plan') \in Candidates(plan)
        /\ \A d \in Candidates(plan) :
               AtMost(ScoreIn(plan, d), ScoreIn(plan, Committed(plan')))

\* C19: every stop the greedy builder commits is an eligible candidate of
\* maximal score among the eligible candidates of that iteration
C19_GreedyCommitsMaximalScore == [][CommitsMaximalScore]_vars

\* the greedy builder has driven 20 km to its first pickup, of the more
\* urgent item, although an item waited at the start
C19_Witness ==
    /\ pc = "optimize_route"
    /\ Len(plan.route.stops) = 1
    /\ plan.route.stops[1].location = 20
    /\ plan.route.stops[1].action = "pickup"
    /\ \E i \in 1..Len(goods_list) :
           /\ goods_list[i].pickup_location = vehicle.current_location
           /\ goods_list[i].time_to_expiry
                  > plan.route.stops[1].goods.time_to_expiry

\* the eligible candidates of the planning state p whose score equals that
\* of the candidate c
TiedWith(p, c) ==
    {d \in Candidates(p) :
        AtMost(ScoreIn(p, d), ScoreIn(p, c))
        /\ AtMost(ScoreIn(p, c), ScoreIn(p, d))}

\* the urgency score of the goods g as a fraction
UrgencyOf(g) ==
    LET floor == IF g.time_to_expiry > 1 THEN g.time_to_expiry ELSE 1
    IN  <<1000 + (6 - g.priority) * 10 * floor, floor>>

\* a step of optimize_route, called on the caller's list, that commits a stop
DirectGreedyCommits == GreedyCommits /\ pc = "optimize_route"

\* among the candidates tied with it, the committed candidate is that of the
\* item first in the caller's list, where the id of an item is its position
TieToFirstInCallerList ==
    DirectGreedyCommits =>
        \A d \in TiedWith(plan, Committed(plan')) :
            Committed(plan').goods.id <= d.goods.id

\* C20, as claimed: among the eligible candidates of equal maximal score the
\* greedy builder commits that of the item first in the goods list as given
\* by the caller
C20_TieToFirstInCallerList == [][TieToFirstInCallerList]_vars

\* among the candidates tied with it, the committed candidate is that of the
\* item of highest urgency score, and among those of equal urgency score
\* that of the item first in the caller's list
TieToFirstInUrgencyOrder ==
    DirectGreedyCommits =>
        \A d \in TiedWith(plan, Committed(plan')) :
            LET c == Committed(plan')
            IN  /\ AtMost(UrgencyOf(d.goods), UrgencyOf(c.goods))
                /\ AtMost(UrgencyOf(c.goods), UrgencyOf(d.goods))
                       => c.goods.id <= d.goods.id

\* C20, amended: among the eligible candidates of equal maximal score the
\* greedy builder commits that of the item first in the list sorted by
\* urgency score, highest first, which keeps the caller's order among items
\* of equal urgency score
C20_TieToFirstInUrgencyOrder == [][TieToFirstInUrgencyOrder]_vars

\* the caller listed the item at A that expires in 100 minutes before the
\* item at B that expires in 40 minutes, their pickups tied at score 60, and
\* the greedy builder has committed the pickup at B
C20_Witness ==
    /\ pc = "optimize_route"
    /\ Len(goods_list) = 2
    /\ goods_list[1].pickup_location = 0
    /\ goods_list[1].time_to_expiry = 100
    /\ goods_list[2].pickup_location = 20
    /\ goods_list[2].time_to_expiry = 40
    /\ Len(plan.route.stops) = 1
    /\ plan.route.stops[1].goods.id = 2

\* a step of optimize_route, called by _optimize_by_time_window, that commits
\* a stop
DeadlineGreedyCommits == GreedyCommits /\ pc = "by_time_window"

\* the goods g are not after the goods h in the order of (time_to_expiry,
\* close of the pickup window), the caller's order deciding between equals
DeadlineOrder(g, h) ==
    \/ g.time_to_expiry < h.time_to_expiry
    \/ /\ g.time_to_expiry = h.time_to_expiry
       /\ g.pickup_time_window[2] < h.pickup_time_window[2]
    \/ /\ g.time_to_expiry = h.time_to_expiry
       /\ g.pickup_time_window[2] = h.pickup_time_window[2]
       /\ g.id <= h.id

\* the deadline-ordered builder commits an eligible candidate of maximal
\* score, and among the candidates tied with it that of the item first in
\* deadline order
TieToFirstInDeadlineOrder ==
    DeadlineGreedyCommits =>
        /\ Committed(plan') \in Candidates(plan)
        /\ \A d \in Candidates(plan) :
               AtMost(ScoreIn(plan, d), ScoreIn(plan, Committed(plan')))
        /\ \A d \in TiedWith(plan, Committed(plan')) :
               DeadlineOrder(Committed(plan').goods, d.goods)

\* C21, as claimed: the deadline-ordered builder is the greedy procedure
\* iterating the goods in (time_to_expiry, window close) order: it commits a
\* candidate of maximal score, and of the candidates of equal maximal score
\* that of the item first in deadline order
C21_TieToFirstInDeadlineOrder == [][TieToFirstInDeadlineOrder]_vars

\* the deadline-ordered builder commits an eligible candidate of maximal
\* score, and among the candidates tied with it that of the item of highest
\* urgency score, the deadline order deciding between items of equal urgency
\* score
TieToUrgencyThenDeadline ==
    DeadlineGreedyCommits =>
        /\ Committed(plan') \in Candidates(plan)
        /\ \A d \in Candidates(plan) :
               AtMost(ScoreIn(plan, d), ScoreIn(plan, Committed(plan')))
        /\ \A d \in TiedWith(plan, Committed(plan')) :
               LET c == Committed(plan')
               IN  /\ AtMost(UrgencyOf(d.goods), UrgencyOf(c.goods))
                   /\ AtMost(UrgencyOf(c.goods), UrgencyOf(d.goods))
                          => DeadlineOrder(c.goods, d.goods)

\* C21, amended: the deadline-ordered builder is the greedy procedure
\* iterating the goods in order of urgency score, highest first, and in
\* (time_to_expiry, window close) order among items of equal urgency score:
\* it commits a candidate of maximal score, and of the candidates of equal
\* maximal score the first in that order
C21_TieToUrgencyThenDeadline == [][TieToUrgencyThenDeadline]_vars

\* the caller listed an item whose window closes at 120 before an item that
\* differs in its window alone, which closes at 60, and the deadline-ordered
\* builder has committed the pickup of the second
C21_Witness ==
    /\ pc = "by_time_window"
    /\ Len(goods_list) = 2
    /\ goods_list[1].pickup_time_window[2] = 120
    /\ goods_list[2].pickup_time_window[2] = 60
    /\ goods_list[1].time_to_expiry = goods_list[2].time_to_expiry
    /\ goods_list[1].priority = goods_list[2].priority
    /\ goods_list[1].pickup_location = goods_list[2].pickup_location
    /\ Len(plan.route.stops) = 1
    /\ plan.route.stops[1].goods.id = 2

\* C22: in every route of a builder each pickup stop arrives inside the
\* pickup window of its goods, not before it opens and not after it closes
C22_PickupInsideWindow ==
    \A r \in Built : \A n \in 1..Len(r.stops) :
        r.stops[n].action = "pickup" =>
            /\ r.stops[n].arrival_time
                   >= r.stops[n].goods.pickup_time_window[1] * r.vehicle.speed
            /\ r.stops[n].arrival_time
                   <= r.stops[n].goods.pickup_time_window[2] * r.vehicle.speed

\* the distance in km from the position of the planning state p to where
\* the candidate c takes place
DistanceOf(p, c) ==
    LET loc == IF c.action = "pickup" THEN c.goods.pickup_location
               ELSE c.goods.delivery_location
    IN  IF loc >= p.current_location THEN loc - p.current_location
        ELSE p.current_location - loc

\* the candidate c replaces the best candidate so far: there is none yet, or
\* c is a pickup strictly nearer, or c is a delivery nearer by more than 1 km
Replaces(p, c, best) ==
    \/ best.action = "none"
    \/ c.action = "pickup" /\ DistanceOf(p, c) < DistanceOf(p, best)
    \/ c.action = "delivery" /\ DistanceOf(p, c) < DistanceOf(p, best) - 1

\* the best candidate after the goods of p from position i on were scanned
\* in list order, starting from the candidate best
RECURSIVE NearestAfterScan(_, _, _)
NearestAfterScan(p, i, best) ==
    IF i > Len(p.goods) THEN best
    ELSE LET here == {c \in Candidates(p) : c.goods = p.goods[i]}
         IN  IF here = {} THEN NearestAfterScan(p, i + 1, best)
             ELSE LET c == CHOOSE x \in here : TRUE
                  IN  NearestAfterScan(p, i + 1,
                          IF Replaces(p, c, best) THEN c ELSE best)

\* a step of the nearest-action builder that commits a stop
NearestCommits ==
    /\ pc = "by_distance"
    /\ pc' = pc
    /\ Len(plan'.route.stops) = Len(plan.route.stops) + 1

\* the stop a step of the nearest-action builder commits is the candidate
\* left by the scan, and the scan is over the caller's list in its order
CommitsScanned ==
    NearestCommits =>
        /\ plan.goods = goods_list
        /\ Committed(plan') = NearestAfterScan(plan, 1, [action |-> "none"])

\* C23: in each step the nearest-action builder scans the goods in the
\* given order and commits the candidate left by these rules: an eligible
\* pickup replaces the best so far when strictly nearer, an eligible
\* delivery only when nearer by more than 1 km, and the first eligible
\* candidate of a step is always recorded
C23_NearestActionScan == [][CommitsScanned]_vars

\* with two items on board at A the nearest-action builder has driven 1 km
\* to deliver the first in the list, although the delivery of the second
\* was at A, nearer by no more than 1 km
C23_Witness ==
    /\ pc = "by_distance"
    /\ Len(goods_list) = 2
    /\ goods_list[1].delivery_location = 1
    /\ goods_list[2].delivery_location = 0
    /\ goods_list[2].time_to_expiry = 60
    /\ Len(plan.route.stops) = 3
    /\ plan.route.stops[2].location = 0
    /\ plan.route.stops[3].action = "delivery"
    /\ plan.route.stops[3].goods.id = 1
    /\ plan.picked_up = {1, 2}
    /\ plan.delivered = {1}

\* C24: no builder delivers a goods item whose time to expiry is below the
\* 15 minutes of service at its pickup, an item at or past its expiry least
\* of all: no delivery stop and no entry of goods_delivered is of such an
\* item, and no delivery arrives before minute 15
C24_ExpiredNeverDelivered ==
    \A r \in Built :
        /\ \A n \in 1..Len(r.stops) :
               r.stops[n].action = "delivery" =>
                   /\ r.stops[n].goods.time_to_expiry >= 15
                   /\ r.stops[n].arrival_time >= 15 * r.vehicle.speed
        /\ \A n \in 1..Len(r.goods_delivered) :
               r.goods_delivered[n].time_to_expiry >= 15

\* a builder has returned a route that delivers, on minute 15, an item that
\* expires on minute 15, and that picks up an item at its expiry which it
\* does not deliver
C24_Witness ==
    /\ pc = "returned"
    /\ \E r \in Returned :
           /\ \E n \in 1..Len(r.stops) :
                  /\ r.stops[n].action = "delivery"
                  /\ r.stops[n].goods.time_to_expiry = 15
                  /\ r.stops[n].arrival_time = 15 * vehicle.speed
           /\ \E n \in 1..Len(r.stops) :
                  /\ r.stops[n].action = "pickup"
                  /\ r.stops[n].goods.time_to_expiry = 0
                  /\ StopsOf(r, "delivery", r.stops[n].goods.id) = {}

\* the delivery stops of r that no pickup stop of the same goods precedes
OrphanDeliveries(r) ==
    {n \in 1..Len(r.stops) :
        /\ r.stops[n].action = "delivery"
        /\ \A m \in StopsOf(r, "pickup", r.stops[n].goods.id) : m > n}

\* the pickup stops of r whose goods no later stop delivers
OpenPickups(r) ==
    {n \in 1..Len(r.stops) :
        /\ r.stops[n].action = "pickup"
        /\ \A m \in StopsOf(r, "delivery", r.stops[n].goods.id) : m < n}

\* C25: is_feasible answers feasible for a hand-constructed route that
\* delivers an item before or without its pickup, or that picks an item up
\* and never delivers it, whenever no pickup brings the running load, which
\* may be negative, above the capacity and no delivery arrives after expiry
C25_PrecedenceNotChecked ==
    pc = "checked" =>
        ((/\ OrphanDeliveries(hand) \cup OpenPickups(hand) # {}
          /\ \A n \in 1..Len(hand.stops) : ~Violates(hand, n))
         => /\ checked.verdict.feasible
            /\ checked.verdict.reason = "Route is feasible")

\* a route was answered feasible that first delivers an item it never picks
\* up, which leaves a negative load, and then picks up an item that expires
\* in 10 minutes and is never delivered
C25_Witness ==
    /\ pc = "checked"
    /\ checked.verdict.feasible
    /\ Len(hand.stops) >= 2
    /\ 1 \in OrphanDeliveries(hand)
    /\ StopsOf(hand, "pickup", hand.stops[1].goods.id) = {}
    /\ LoadAfter(hand, 1) < 0
    /\ \E n \in OpenPickups(hand) :
           /\ hand.stops[n].goods.time_to_expiry = 10
           /\ StopsOf(hand, "delivery", hand.stops[n].goods.id) = {}

=============================================================================
